---- MODULE Spec2Model ----
(***************************************************************************)
(* Model of the SQL Server dialector (sqlserver.go): classification of the *)
(* server into a supported / unsupported (legacy) tier, installation of    *)
(* the clause builders by Initialize, and the building of one SELECT       *)
(* statement clause by clause with the installed builders.                 *)
(*                                                                         *)
(* Text is modelled as a sequence of tokens (strings).  Numbers written    *)
(* into text are written digit by digit (Itoa) and read back digit by      *)
(* digit (Atoi), identifiers are quoted segment by segment (QuoteTo).      *)
(***************************************************************************)
EXTENDS Integers, Sequences, FiniteSets, TLC

VARIABLES
    dialector,         \* Config fields ProductVersion, Edition (shared through *Config)
    dbClauseBuilders,  \* db.ClauseBuilders: clause name -> installed builder
    initResult,        \* what the last Initialize returned: "none", "ok", "error"
    stmt,              \* the gorm.Statement being built (Selects, Table, Schema, Clauses, Vars, SQL)
    part,              \* clause name -> text written by that clause's build step
    pc,                \* position of Statement.Build in its clause list
    result             \* value returned by the last classifier call

vars == <<dialector, dbClauseBuilders, initResult, stmt, part, pc, result>>

----------------------------------------------------------------------------
\* Bounds of the model.

MaxVerLen == 3     \* longest version string drawn, in characters
MaxLimit == 1      \* limits 0..MaxLimit (and the two-digit limit 10)
MaxOffset == 1     \* offsets 0..MaxOffset (and the two-digit offset 20)
MaxConds == 2      \* caller's WHERE conditions per statement

----------------------------------------------------------------------------
\* Text helpers.

Digits == <<"0", "1", "2", "3", "4", "5", "6", "7", "8", "9">>

IsDigit(c) == \E i \in 1..10 : Digits[i] = c

DigitVal(c) == (CHOOSE i \in 1..10 : Digits[i] = c) - 1

RECURSIVE ItoaNat(_)
ItoaNat(n) == IF n < 10 THEN <<Digits[n + 1]>>
              ELSE ItoaNat(n \div 10) \o <<Digits[(n % 10) + 1]>>

\* strconv.Itoa
Itoa(n) == IF n < 0 THEN <<"-">> \o ItoaNat(-n) ELSE ItoaNat(n)

RECURSIVE DigitsValue(_, _)
DigitsValue(s, acc) == IF s = <<>> THEN acc
                       ELSE DigitsValue(Tail(s), acc * 10 + DigitVal(Head(s)))

\* strconv.Atoi: optional sign, then one or more decimal digits.
Atoi(s) ==
    IF s = <<>> THEN [val |-> 0, err |-> "syntax"]
    ELSE LET signed == Head(s) \in {"-", "+"}
             body == IF signed THEN Tail(s) ELSE s
         IN IF body = <<>> \/ \E i \in 1..Len(body) : ~IsDigit(body[i])
            THEN [val |-> 0, err |-> "syntax"]
            ELSE [val |-> IF Head(s) = "-" THEN -DigitsValue(body, 0)
                          ELSE DigitsValue(body, 0),
                  err |-> "nil"]

RECURSIVE SplitFrom(_, _, _)
SplitFrom(s, sep, cur) ==
    IF s = <<>> THEN <<cur>>
    ELSE IF Head(s) = sep THEN <<cur>> \o SplitFrom(Tail(s), sep, <<>>)
    ELSE SplitFrom(Tail(s), sep, Append(cur, Head(s)))

\* strings.Split(s, sep) for a one-character separator
Split(s, sep) == SplitFrom(s, sep, <<>>)

\* strings.Contains for a one-token needle
Contains(s, tok) == \E i \in 1..Len(s) : s[i] = tok

\* strings.ReplaceAll(s, tok, "")
ReplaceAll(s, tok) == SelectSeq(s, LAMBDA c : c # tok)

RECURSIVE TrimLeft(_)
TrimLeft(s) == IF s # <<>> /\ Head(s) = " " THEN TrimLeft(Tail(s)) ELSE s

RECURSIVE TrimRight(_)
TrimRight(s) == IF s # <<>> /\ s[Len(s)] = " "
                THEN TrimRight(SubSeq(s, 1, Len(s) - 1)) ELSE s

\* strings.TrimSpace
TrimSpace(s) == TrimRight(TrimLeft(s))

----------------------------------------------------------------------------
\* Capability classifier.

Enterprise == 1
Business == 2
Developer == 3
Express == 4
ExpressAdvanced == 5
Standard == 6
Web == 7
Azure == 8
AzureEdge == 9
AzureEdgeDeveloper == 10
Unknown == 11

is64Identifier == "(64-bit)"

\* the switch on the stripped edition string
EditionOf(edStr) ==
    IF edStr \in {<<"Enterprise Edition">>,
                  <<"Enterprise Edition: Core-based Licensing">>,
                  <<"Enterprise Evaluation Edition">>} THEN Enterprise
    ELSE IF edStr = <<"Business Intelligence Edition">> THEN Business
    ELSE IF edStr = <<"Developer Edition">> THEN Developer
    ELSE IF edStr = <<"Express Edition">> THEN Express
    ELSE IF edStr = <<"Express Edition with Advanced Services">> THEN ExpressAdvanced
    ELSE IF edStr = <<"Standard Edition">> THEN Standard
    ELSE IF edStr = <<"Web Edition">> THEN Web
    ELSE IF edStr = <<"SQL Azure">> THEN Azure
    ELSE IF edStr = <<"Azure SQL Edge">> THEN AzureEdge
    ELSE IF edStr = <<"Azure SQL Edge Developer">> THEN AzureEdgeDeveloper
    ELSE Unknown

Failure(msg) == [versionMajor |-> 0, versionMinor |-> 0, edition |-> 0,
                 is64Bit |-> FALSE, err |-> msg]

GetVersionAndType(d) ==
    IF d.ProductVersion = <<>> THEN Failure("no product edition provided")
    ELSE IF d.Edition = <<>> THEN Failure("no product edition provided")
    ELSE LET versionParts == Split(d.ProductVersion, ".")
             major == Atoi(versionParts[1])
             minor == IF Len(versionParts) > 1 THEN Atoi(versionParts[2]).val ELSE 0
             is64 == Contains(d.Edition, is64Identifier)
             edStr == IF is64 THEN TrimSpace(ReplaceAll(d.Edition, is64Identifier))
                      ELSE d.Edition
         IN IF major.err # "nil" THEN Failure("invalid product version")
            ELSE [versionMajor |-> major.val, versionMinor |-> minor,
                  edition |-> EditionOf(edStr), is64Bit |-> is64, err |-> "nil"]

IsUnsupportedAzureIncluded(d) ==
    LET r == GetVersionAndType(d)
    IN r.err = "nil" /\ r.versionMajor < 11 /\ r.edition <= Azure

IsUnsupportedSQLServer(d) ==
    LET r == GetVersionAndType(d)
    IN r.err = "nil" /\ r.versionMajor < 11 /\ r.edition < Azure

----------------------------------------------------------------------------
\* Identifier and placeholder formatter.

RECURSIVE QuoteSegments(_, _)
QuoteSegments(segs, idx) ==
    IF segs = <<>> THEN <<>>
    ELSE (IF idx > 0 THEN <<".\"">> ELSE <<>>) \o Head(segs) \o <<"\"">>
         \o QuoteSegments(Tail(segs), idx + 1)

QuoteTo(str) ==
    IF Contains(str, ".")
    THEN <<"\"">> \o QuoteSegments(Split(str, "."), 0)
    ELSE <<"\"">> \o str \o <<"\"">>

\* builder.WriteString / WriteByte on the statement's SQL buffer
Write(s, text) == [s EXCEPT !.SQL = @ \o text]

\* builder.WriteQuoted
WriteQuoted(s, name) == Write(s, QuoteTo(name))

BindVarToZeroBased(s, v) == Write(s, <<"@p">> \o Itoa(Len(s.Vars) - 1))

BindVarTo(s, v) == Write(s, <<"@p">> \o Itoa(Len(s.Vars)))

\* Statement.AddVar for a plain value: append it, then write its placeholder
AddVar(s, v) == BindVarTo([s EXCEPT !.Vars = Append(@, v)], v)

----------------------------------------------------------------------------
\* The statement's clause collection and the default clause composition.

Merge(f, g) == [x \in DOMAIN f \cup DOMAIN g |->
                   IF x \in DOMAIN f THEN f[x] ELSE g[x]]

NoClauses == [x \in {} |-> x]

HasClause(s, name) == name \in DOMAIN s.Clauses

getLimitAndOffsetIfExists(s) ==
    IF HasClause(s, "LIMIT")
    THEN [limit |-> s.Clauses["LIMIT"].Limit,
          offset |-> s.Clauses["LIMIT"].Offset, err |-> "nil"]
    ELSE [limit |-> 0, offset |-> 0, err |-> "no limit / offset found"]

RECURSIVE WriteColumns(_, _, _)
WriteColumns(s, cols, idx) ==
    IF cols = <<>> THEN s
    ELSE WriteColumns(
             WriteQuoted(IF idx > 0 THEN Write(s, <<",">>) ELSE s, Head(cols)),
             Tail(cols), idx + 1)

\* clause.Select.Build
SelectBuild(c, s) ==
    IF Len(c.Columns) > 0 THEN WriteColumns(s, c.Columns, 0) ELSE Write(s, <<"*">>)

\* clause.From.Build with no explicit tables: the statement's table
FromBuild(c, s) == WriteQuoted(s, s.Table)

\* clause.OrderBy.Build
OrderByBuild(c, s) == WriteColumns(s, c.Columns, 0)

RECURSIVE ExprBuild(_, _, _)
ExprBuild(s, sql, args) ==
    IF sql = <<>> THEN s
    ELSE IF Head(sql) = "?" /\ args # <<>>
         THEN ExprBuild(AddVar(s, Head(args)), Tail(sql), Tail(args))
         ELSE ExprBuild(Write(s, <<Head(sql)>>), Tail(sql), args)

RECURSIVE WriteExprs(_, _, _)
WriteExprs(s, exprs, idx) ==
    IF exprs = <<>> THEN s
    ELSE WriteExprs(
             ExprBuild(IF idx > 0 THEN Write(s, <<" AND ">>) ELSE s,
                       Head(exprs).SQL, Head(exprs).Vars),
             Tail(exprs), idx + 1)

\* clause.Where.Build
WhereBuild(c, s) == WriteExprs(s, c.Exprs, 0)

\* clause.Limit.Build
LimitBuild(c, s) ==
    LET s1 == IF c.Limit > 0 THEN Write(s, <<"LIMIT ">> \o Itoa(c.Limit)) ELSE s
    IN IF c.Offset > 0
       THEN Write(IF c.Limit > 0 THEN Write(s1, <<" ">>) ELSE s1,
                  <<"OFFSET ">> \o Itoa(c.Offset))
       ELSE s1

\* Clause.Build: the clause's name and its expression
ClauseBuild(name, c, s) ==
    CASE name = "SELECT" -> SelectBuild(c, Write(s, <<"SELECT ">>))
      [] name = "FROM" -> FromBuild(c, Write(s, <<"FROM ">>))
      [] name = "WHERE" -> WhereBuild(c, Write(s, <<"WHERE ">>))
      [] name = "ORDER BY" -> OrderByBuild(c, Write(s, <<"ORDER BY ">>))
      [] name = "LIMIT" -> LimitBuild(c, s)

WhereExprs(s) == IF HasClause(s, "WHERE") THEN s.Clauses["WHERE"].Exprs ELSE <<>>

\* stmt.BuildCondition(query, arg) for a query with one "?"
BuildCondition(query, arg) == <<[SQL |-> query, Vars |-> <<arg>>]>>

\* stmt.AddClause(clause.Where{conds}): appended to the WHERE expressions
AddClauseWhere(s, conds) ==
    [s EXCEPT !.Clauses =
        Merge([x \in {"WHERE"} |-> [Exprs |-> WhereExprs(s) \o conds]], @)]

----------------------------------------------------------------------------
\* Clause rewriter, modern strategy: the LIMIT builder.

FetchOffsetOmitted(c) == <<>>

\* the explicit OFFSET written before FETCH when the clause has no offset
FetchOffset(c) == IF c.Offset = 0 THEN <<"OFFSET 0 ROW">> ELSE <<>>

ModernLimit(c, s) ==
    LET s1 == IF ~HasClause(s, "ORDER BY")
              THEN IF s.Schema.present /\ s.Schema.PrioritizedPrimaryField # <<>>
                   THEN Write(WriteQuoted(Write(s, <<"ORDER BY ">>),
                                          s.Schema.PrioritizedPrimaryField), <<" ">>)
                   ELSE Write(s, <<"ORDER BY (SELECT NULL) ">>)
              ELSE s
        s2 == IF c.Offset > 0
              THEN Write(s1, <<"OFFSET ">> \o Itoa(c.Offset) \o <<" ROWS">>)
              ELSE s1
    IN IF c.Limit > 0
       THEN Write(s2, FetchOffset(c) \o <<" FETCH NEXT ">> \o Itoa(c.Limit)
                      \o <<" ROWS ONLY">>)
       ELSE s2

----------------------------------------------------------------------------
\* Clause rewriter, legacy strategy: SELECT, FROM, LIMIT and ORDER BY builders.

LegacySelect(c, s) ==
    LET s1 == Write(s, <<"SELECT ">>)
        lo == getLimitAndOffsetIfExists(s1)
        s2 == IF lo.err = "nil" /\ lo.offset = 0
              THEN Write(s1, <<"TOP(">> \o Itoa(lo.limit) \o <<") ">>)
              ELSE s1
    IN SelectBuild(c, s2)

RECURSIVE WriteSelects(_, _)
WriteSelects(s, selects) ==
    IF selects = <<>> THEN s
    ELSE WriteSelects(Write(WriteQuoted(s, Head(selects)), <<",">>), Tail(selects))

\* the projection of the row-numbering subquery
SubqueryProjection(s) ==
    IF Len(s.Selects) > 0
    THEN Write(WriteSelects(s, s.Selects), <<"ROW_NUMBER()">>)
    ELSE Write(s, <<"SELECT *, ROW_NUMBER()">>)

\* the ordering key of the row numbering
OrderingKey(s) ==
    IF HasClause(s, "ORDER BY")
    THEN OrderByBuild(s.Clauses["ORDER BY"], s)
    ELSE IF s.Schema.present /\ s.Schema.PrioritizedPrimaryField # <<>>
         THEN Write(WriteQuoted(s, s.Schema.PrioritizedPrimaryField), <<" ">>)
         ELSE Write(s, <<"(SELECT NULL) ">>)

\* the subquery's source
SubquerySource(s) ==
    IF HasClause(s, "FROM")
    THEN ClauseBuild("FROM", s.Clauses["FROM"], s)
    ELSE WriteQuoted(Write(s, <<"FROM ">>), s.Table)

UpperBoundLimitOnly(limit, offset) == limit

\* the parameter of the "row <= ?" predicate
UpperBound(limit, offset) == IF offset = 0 THEN limit ELSE limit + offset

\* query and queryParam, zipped
RowPredicates(limit, offset) ==
    (IF offset > 0 THEN <<[query |-> <<"row > ", "?">>, param |-> offset]>> ELSE <<>>)
    \o (IF limit > 0
        THEN <<[query |-> <<"row <= ", "?">>, param |-> UpperBound(limit, offset)]>>
        ELSE <<>>)

RECURSIVE AddPredicates(_, _)
AddPredicates(s, preds) ==
    IF preds = <<>> THEN s
    ELSE AddPredicates(
             AddClauseWhere(s, BuildCondition(Head(preds).query, Head(preds).param)),
             Tail(preds))

LegacyFrom(c, s) ==
    LET s1 == Write(s, <<"FROM ">>)
        lo == getLimitAndOffsetIfExists(s1)
    IN IF lo.err = "nil" /\ lo.offset > 0
       THEN LET s2 == SubqueryProjection(Write(s1, <<"(">>))
                s3 == OrderingKey(Write(s2, <<" OVER (ORDER BY ">>))
                s4 == SubquerySource(Write(s3, <<") AS row ">>))
                s5 == Write(s4, <<") a">>)
            IN AddPredicates(s5, RowPredicates(lo.limit, lo.offset))
       ELSE FromBuild(c, s1)

LegacyLimit(c, s) == s

LegacyOrderByAlways(c, s) == OrderByBuild(c, Write(s, <<"ORDER BY ">>))

LegacyOrderBy(c, s) ==
    LET lo == getLimitAndOffsetIfExists(s)
    IN IF lo.offset = 0 \/ lo.err # "nil"
       THEN OrderByBuild(c, Write(s, <<"ORDER BY ">>))
       ELSE s

ClauseNames == {"SELECT", "FROM", "ORDER BY", "LIMIT"}

getUnsupportedClauses == [name \in ClauseNames |-> "legacy"]

ClauseBuilders(d) ==
    IF IsUnsupportedSQLServer(d) THEN getUnsupportedClauses
    ELSE [name \in {"LIMIT"} |-> "modern"]

\* calling an installed builder
CallBuilder(kind, name, c, s) ==
    IF kind = "modern" THEN ModernLimit(c, s)
    ELSE CASE name = "SELECT" -> LegacySelect(c, s)
           [] name = "FROM" -> LegacyFrom(c, s)
           [] name = "LIMIT" -> LegacyLimit(c, s)
           [] name = "ORDER BY" -> LegacyOrderBy(c, s)

----------------------------------------------------------------------------
\* Inputs.

VerChars == {"0", "1", "9", ".", "x", "-"}

\* every version string of at most MaxVerLen characters
Versions == UNION {[1..n -> VerChars] : n \in 0..MaxVerLen}

Labels == {"Enterprise Edition", "Enterprise Edition: Core-based Licensing",
           "Enterprise Evaluation Edition", "Business Intelligence Edition",
           "Developer Edition", "Express Edition",
           "Express Edition with Advanced Services", "Standard Edition",
           "Web Edition", "SQL Azure", "Azure SQL Edge",
           "Azure SQL Edge Developer", "Datacenter Edition"}

\* an edition label, bare or with the 64-bit marker after or before it
Editions == {<<>>} \cup {<<l>> : l \in Labels}
            \cup {<<l, " ", is64Identifier>> : l \in Labels}
            \cup {<<is64Identifier, " ", l>> : l \in Labels}

\* the servers a connection is initialized against
ServerIds ==
    {[version |-> <<"1", "0", ".", "5", "0">>,
      edition |-> <<"Standard Edition", " ", is64Identifier>>],
     [version |-> <<"1", "2", ".", "0">>, edition |-> <<"Standard Edition">>],
     [version |-> <<"1", "0", ".", "0">>, edition |-> <<"SQL Azure">>],
     [version |-> <<>>, edition |-> <<"Standard Edition">>],
     [version |-> <<"1", "0", ".", "0">>, edition |-> <<>>],
     [version |-> <<"x", ".", "1">>, edition |-> <<"Standard Edition">>]}

Limits == (0..MaxLimit) \cup {10}
Offsets == (0..MaxOffset) \cup {20}

LimitClauses == [Limit : Limits, Offset : Offsets]

SelectLists == {<<>>, <<<<"name">>>>, <<<<"name">>, <<"t", ".", "age">>>>}

Tables == {<<"users">>, <<"dbo", ".", "users">>}

NilSchema == [present |-> FALSE, PrioritizedPrimaryField |-> <<>>]

Schemas == {NilSchema,
            [present |-> TRUE, PrioritizedPrimaryField |-> <<>>],
            [present |-> TRUE, PrioritizedPrimaryField |-> <<"id">>]}

OrderColumns == <<<<"created">>>>

\* the caller's i-th WHERE condition and its bound value
CallerValue(i) == 100 + i
CallerCond(i) == [SQL |-> <<"col = ", "?">>, Vars |-> <<CallerValue(i)>>]

EmptyStmt == [Selects |-> <<>>, Table |-> <<>>, Schema |-> NilSchema,
              Clauses |-> NoClauses, Vars |-> <<>>, SQL |-> <<>>]

NoResult == [called |-> FALSE, value |-> Failure("nil"), unsupported |-> FALSE]

----------------------------------------------------------------------------
\* Connection initialization.

Init ==
    /\ dialector = [ProductVersion |-> <<>>, Edition |-> <<>>]
    /\ dbClauseBuilders = NoClauses
    /\ initResult = "none"
    /\ stmt = EmptyStmt
    /\ part = NoClauses
    /\ pc = "idle"
    /\ result = NoResult

Initialize(version, edition, queryErr) ==
    /\ pc = "idle"
    /\ IF queryErr
       THEN /\ initResult' = "error"
            /\ UNCHANGED <<dialector, dbClauseBuilders>>
       ELSE /\ dialector' = [ProductVersion |-> version, Edition |-> edition]
            /\ dbClauseBuilders' = Merge(ClauseBuilders(dialector'), dbClauseBuilders)
            /\ initResult' = "ok"
    /\ UNCHANGED <<stmt, part, pc, result>>

InitializeDB == \E id \in ServerIds, queryErr \in BOOLEAN :
                    Initialize(id.version, id.edition, queryErr)

----------------------------------------------------------------------------
\* Building one statement: Statement.Build("SELECT", "FROM", "WHERE",
\* "ORDER BY", "LIMIT") with the builders of db.ClauseBuilders.

NewStatement ==
    /\ pc = "idle"
    /\ initResult = "ok"
    /\ \E selects \in SelectLists, table \in Tables, schema \in Schemas,
          order \in BOOLEAN, limited \in BOOLEAN, lim \in LimitClauses,
          n \in 0..MaxConds :
          /\ limited \/ lim = [Limit |-> 0, Offset |-> 0]
          /\ stmt' = [Selects |-> selects, Table |-> table, Schema |-> schema,
                      Clauses |->
                          Merge([x \in {"SELECT"} |-> [Columns |-> selects]],
                          Merge([x \in {"FROM"} |-> [Tables |-> <<>>]],
                          Merge([x \in (IF n > 0 THEN {"WHERE"} ELSE {}) |->
                                    [Exprs |-> [i \in 1..n |-> CallerCond(i)]]],
                          Merge([x \in (IF order THEN {"ORDER BY"} ELSE {}) |->
                                    [Columns |-> OrderColumns]],
                                [x \in (IF limited THEN {"LIMIT"} ELSE {}) |-> lim])))),
                      Vars |-> <<>>, SQL |-> <<>>]
    /\ part' = NoClauses
    /\ pc' = "SELECT"
    /\ UNCHANGED <<dialector, dbClauseBuilders, initResult, result>>

NextClause(name) ==
    CASE name = "SELECT" -> "FROM"
      [] name = "FROM" -> "WHERE"
      [] name = "WHERE" -> "ORDER BY"
      [] name = "ORDER BY" -> "LIMIT"
      [] name = "LIMIT" -> "done"

BuildClause(name) ==
    /\ pc = name
    /\ IF HasClause(stmt, name)
       THEN LET firstClauseWritten == DOMAIN part # {}
                s0 == IF firstClauseWritten THEN Write(stmt, <<" ">>) ELSE stmt
                c == stmt.Clauses[name]
                s1 == IF name \in DOMAIN dbClauseBuilders
                      THEN CallBuilder(dbClauseBuilders[name], name, c, s0)
                      ELSE ClauseBuild(name, c, s0)
            IN /\ stmt' = s1
               /\ part' = Merge([x \in {name} |->
                                    SubSeq(s1.SQL, Len(s0.SQL) + 1, Len(s1.SQL))], part)
       ELSE UNCHANGED <<stmt, part>>
    /\ pc' = NextClause(name)
    /\ UNCHANGED <<dialector, dbClauseBuilders, initResult, result>>

BuildSelect == BuildClause("SELECT")
BuildFrom == BuildClause("FROM")
BuildWhere == BuildClause("WHERE")
BuildOrderBy == BuildClause("ORDER BY")
BuildLimit == BuildClause("LIMIT")

\* the statement is executed and dropped
Finish ==
    /\ pc = "done"
    /\ pc' = "idle"
    /\ stmt' = EmptyStmt
    /\ part' = NoClauses
    /\ UNCHANGED <<dialector, dbClauseBuilders, initResult, result>>

Next ==
    \/ InitializeDB
    \/ NewStatement
    \/ BuildSelect
    \/ BuildFrom
    \/ BuildWhere
    \/ BuildOrderBy
    \/ BuildLimit
    \/ Finish

Spec == Init /\ [][Next]_vars

----------------------------------------------------------------------------
\* The classifier alone, over every version and edition string of the bounds.

InitClassify ==
    /\ dialector \in [ProductVersion : Versions, Edition : Editions]
    /\ dbClauseBuilders = NoClauses
    /\ initResult = "none"
    /\ stmt = EmptyStmt
    /\ part = NoClauses
    /\ pc = "idle"
    /\ result = NoResult

CallIsUnsupportedSQLServer ==
    /\ ~result.called
    /\ result' = [called |-> TRUE, value |-> GetVersionAndType(dialector),
                  unsupported |-> IsUnsupportedSQLServer(dialector)]
    /\ UNCHANGED <<dialector, dbClauseBuilders, initResult, stmt, part, pc>>

NextClassify == CallIsUnsupportedSQLServer

SpecClassify == InitClassify /\ [][NextClassify]_vars

----------------------------------------------------------------------------
\* Vocabulary of the properties.

Lim == getLimitAndOffsetIfExists(stmt)

Built(name) == name \in DOMAIN part

Installed(name, kind) ==
    name \in DOMAIN dbClauseBuilders /\ dbClauseBuilders[name] = kind

Legacy == dbClauseBuilders = getUnsupportedClauses

IsPrefix(p, s) == Len(p) <= Len(s) /\ SubSeq(s, 1, Len(p)) = p

\* the positions at which text p occurs in s
Occurrences(p, s) ==
    {i \in 1..(Len(s) - Len(p) + 1) : SubSeq(s, i, i + Len(p) - 1) = p}

ContainsText(p, s) == Occurrences(p, s) # {}

\* the SELECT builder wrote TOP( right after the SELECT keyword
TopWritten == /\ Built("SELECT")
              /\ Len(part["SELECT"]) >= 2
              /\ part["SELECT"][1] = "SELECT "
              /\ part["SELECT"][2] = "TOP("

\* the statement's WHERE clause set holds a "row <= ?" predicate
UpperPredicate == \E i \in 1..Len(WhereExprs(stmt)) :
                      WhereExprs(stmt)[i].SQL = <<"row <= ", "?">>

RECURSIVE TakeDigits(_)
TakeDigits(s) == IF s # <<>> /\ IsDigit(Head(s))
                 THEN <<Head(s)>> \o TakeDigits(Tail(s)) ELSE <<>>

\* the ordinals of the placeholders @p<n> of a text, in the order written
RECURSIVE PlaceholderOrdinals(_)
PlaceholderOrdinals(s) ==
    IF s = <<>> THEN <<>>
    ELSE IF Head(s) = "@p"
         THEN <<Atoi(TakeDigits(Tail(s))).val>> \o PlaceholderOrdinals(Tail(s))
         ELSE PlaceholderOrdinals(Tail(s))

----------------------------------------------------------------------------
\* C1: legacy SELECT builder: TOP(<limit>) is written right after the SELECT
\* keyword if and only if a LIMIT clause is registered with limit > 0 and
\* offset = 0 (so not for limit = 0, offset = 0, and not for offset > 0).
C1_TopIffPositiveLimit ==
    (Built("SELECT") /\ Installed("SELECT", "legacy")) =>
        (TopWritten <=> (Lim.err = "nil" /\ Lim.limit > 0 /\ Lim.offset = 0))

\* C3: modern LIMIT builder: with limit = 0 and offset = 0 the builder emits
\* nothing, also for a statement without an ORDER BY clause.
C3_UnsetLimitEmitsNothing ==
    (Built("LIMIT") /\ Installed("LIMIT", "modern")
        /\ Lim.limit = 0 /\ Lim.offset = 0) => part["LIMIT"] = <<>>

\* C4: when the stored version or edition does not classify (empty string,
\* non-integer major), Initialize returns an error and installs neither the
\* modern nor the legacy builders.
C4_ClassificationFailureAborts ==
    (initResult # "none" /\ GetVersionAndType(dialector).err # "nil") =>
        (initResult = "error" /\ dbClauseBuilders = NoClauses)

\* C9: legacy FROM builder with offset > 0: the text after "FROM (" begins with
\* the SELECT keyword, for an empty and for a non-empty select list, and goes on
\* with the row-number column, the original source and ") a".
C9_SubqueryStartsWithSelect ==
    (Built("FROM") /\ Installed("FROM", "legacy") /\ Lim.err = "nil" /\ Lim.offset > 0) =>
        LET out == part["FROM"]
        IN /\ IsPrefix(<<"FROM ", "(">>, out)
           /\ out[3] \in {"SELECT ", "SELECT *, ROW_NUMBER()"}
           /\ \E i \in 3..Len(out) : out[i] \in {"ROW_NUMBER()", "SELECT *, ROW_NUMBER()"}
                                     /\ out[i + 1] = " OVER (ORDER BY "
           /\ ContainsText(<<") AS row ", "FROM ">> \o QuoteTo(stmt.Table) \o <<") a">>, out)

\* C10: in every reachable state the installed SELECT, FROM, ORDER BY and LIMIT
\* builders belong to one strategy: all four legacy overrides, or the modern
\* LIMIT override alone (or nothing before the first initialization).
C10_OneStrategyInstalled ==
    \/ dbClauseBuilders = NoClauses
    \/ dbClauseBuilders = getUnsupportedClauses
    \/ dbClauseBuilders = [name \in {"LIMIT"} |-> "modern"]

----------------------------------------------------------------------------
\* C2: legacy FROM builder: for a statement with a LIMIT clause and offset > 0,
\* one build of FROM appends to the WHERE clause set "row > offset" and, iff
\* limit > 0, "row <= limit + offset" (never "row <= limit"); with offset = 0 or
\* no LIMIT clause it appends nothing and writes the caller's FROM as the
\* default composition would.
C2_FromInjectsRowPredicates ==
    [][(pc = "FROM" /\ pc' = "WHERE" /\ Installed("FROM", "legacy")) =>
        IF Lim.err = "nil" /\ Lim.offset > 0
        THEN WhereExprs(stmt') =
                 WhereExprs(stmt)
                 \o <<[SQL |-> <<"row > ", "?">>, Vars |-> <<Lim.offset>>]>>
                 \o (IF Lim.limit > 0
                     THEN <<[SQL |-> <<"row <= ", "?">>,
                             Vars |-> <<Lim.limit + Lim.offset>>]>>
                     ELSE <<>>)
        ELSE /\ stmt'.Clauses = stmt.Clauses
             /\ part'["FROM"] =
                    ClauseBuild("FROM", stmt.Clauses["FROM"],
                                [stmt EXCEPT !.SQL = <<>>]).SQL]_vars

C2_Witness ==
    /\ pc = "WHERE" /\ Legacy /\ Lim.err = "nil"
    /\ Lim.limit = 10 /\ Lim.offset = 20
    /\ Len(WhereExprs(stmt)) = 3
    /\ WhereExprs(stmt)[3] = [SQL |-> <<"row <= ", "?">>, Vars |-> <<30>>]

\* C5: for every version and edition that classify without error,
\* IsUnsupportedSQLServer is true iff the parsed major version is < 11 and the
\* edition category precedes cloud-hosted in the ordering enterprise < ... <
\* unknown; a trailing 64-bit marker and a non-numeric minor segment do not
\* change the result; an unrecognised label is Unknown and not unsupported.
CategoryOrder == <<"enterprise", "business", "developer", "express",
                   "express-advanced", "standard", "web", "cloud-hosted",
                   "cloud-hosted-edge", "cloud-hosted-edge-developer", "unknown">>

Position(cat) == CHOOSE i \in 1..Len(CategoryOrder) : CategoryOrder[i] = cat

CategoryOfLabel(l) ==
    CASE l \in {"Enterprise Edition", "Enterprise Edition: Core-based Licensing",
                "Enterprise Evaluation Edition"} -> "enterprise"
      [] l = "Business Intelligence Edition" -> "business"
      [] l = "Developer Edition" -> "developer"
      [] l = "Express Edition" -> "express"
      [] l = "Express Edition with Advanced Services" -> "express-advanced"
      [] l = "Standard Edition" -> "standard"
      [] l = "Web Edition" -> "web"
      [] l = "SQL Azure" -> "cloud-hosted"
      [] l = "Azure SQL Edge" -> "cloud-hosted-edge"
      [] l = "Azure SQL Edge Developer" -> "cloud-hosted-edge-developer"
      [] OTHER -> "unknown"

C5_UnsupportedIffOldAndPreCloud ==
    (result.called /\ result.value.err = "nil") =>
        LET e == dialector.Edition
            v == dialector.ProductVersion
            major == result.value.versionMajor
            plain == Len(e) = 1
            trailing == Len(e) = 3 /\ e[2] = " " /\ e[3] = "(64-bit)"
            firstSegment == Split(v, ".")[1]
        IN /\ result.unsupported =
                  (major < 11 /\ result.value.edition < Position("cloud-hosted"))
           /\ (plain \/ trailing) =>
                  /\ result.value.edition = Position(CategoryOfLabel(e[1]))
                  /\ result.unsupported =
                         (major < 11 /\ Position(CategoryOfLabel(e[1]))
                                          < Position("cloud-hosted"))
                  /\ CategoryOfLabel(e[1]) = "unknown" => ~result.unsupported
           /\ trailing => result.unsupported =
                  IsUnsupportedSQLServer([dialector EXCEPT !.Edition = <<e[1]>>])
           /\ result.unsupported =
                  IsUnsupportedSQLServer([dialector EXCEPT !.ProductVersion = firstSegment])
           /\ firstSegment = <<"1", "0">> => major = 10
           /\ firstSegment = <<"1", "1">> => major = 11
           /\ firstSegment = <<"9">> => major = 9

C5_Witness ==
    /\ result.called /\ result.value.err = "nil" /\ result.unsupported
    /\ dialector.ProductVersion = <<"9", ".", "x">>
    /\ dialector.Edition = <<"Web Edition", " ", "(64-bit)">>

----------------------------------------------------------------------------
\* C6: modern LIMIT builder, limit >= 0 and offset >= 0 not both zero: the
\* output contains "OFFSET <offset> ROWS" iff offset > 0 and "FETCH NEXT <limit>
\* ROWS ONLY" iff limit > 0; every FETCH follows an OFFSET fragment ("OFFSET 0
\* ROW" when offset = 0); without an ORDER BY clause the output starts with
\* ORDER BY "<pk>" if the schema has a primary key, else ORDER BY (SELECT NULL),
\* and with one no ORDER BY is synthesized.  limit = 10, offset = 0, pk "id"
\* gives: ORDER BY "id" OFFSET 0 ROW FETCH NEXT 10 ROWS ONLY.
C6_ModernOffsetFetch ==
    (Built("LIMIT") /\ Installed("LIMIT", "modern")
        /\ Lim.limit >= 0 /\ Lim.offset >= 0 /\ ~(Lim.limit = 0 /\ Lim.offset = 0)) =>
        LET out == part["LIMIT"]
            offsetText == <<"OFFSET ">> \o Itoa(Lim.offset) \o <<" ROWS">>
            fetchText == <<" FETCH NEXT ">> \o Itoa(Lim.limit) \o <<" ROWS ONLY">>
            pk == stmt.Schema.PrioritizedPrimaryField
            synthesized == {"ORDER BY ", "ORDER BY (SELECT NULL) "}
        IN /\ ContainsText(offsetText, out) <=> Lim.offset > 0
           /\ ContainsText(fetchText, out) <=> Lim.limit > 0
           /\ \A i \in 1..Len(out) : out[i] = " FETCH NEXT " =>
                  /\ i > 1
                  /\ IF Lim.offset = 0 THEN out[i - 1] = "OFFSET 0 ROW"
                     ELSE IsPrefix(offsetText,
                                   SubSeq(out, i - Len(offsetText), Len(out)))
           /\ IF HasClause(stmt, "ORDER BY")
              THEN \A i \in 1..Len(out) : out[i] \notin synthesized
              ELSE IF stmt.Schema.present /\ pk # <<>>
                   THEN IsPrefix(<<"ORDER BY ", "\"">> \o pk \o <<"\"", " ">>, out)
                   ELSE out[1] = "ORDER BY (SELECT NULL) "
           /\ (Lim.limit = 10 /\ Lim.offset = 0 /\ ~HasClause(stmt, "ORDER BY")
                 /\ stmt.Schema.present /\ pk = <<"id">>) =>
                  out = <<"ORDER BY ", "\"", "id", "\"", " ", "OFFSET 0 ROW",
                          " FETCH NEXT ", "1", "0", " ROWS ONLY">>
           /\ (Lim.limit = 0 /\ Lim.offset = 20 /\ HasClause(stmt, "ORDER BY")) =>
                  out = <<"OFFSET ", "2", "0", " ROWS">>

C6_Witness ==
    /\ Built("LIMIT") /\ Installed("LIMIT", "modern")
    /\ Lim.limit = 10 /\ Lim.offset = 0 /\ ~HasClause(stmt, "ORDER BY")
    /\ stmt.Schema.PrioritizedPrimaryField = <<"id">>
    /\ part["LIMIT"][6] = "OFFSET 0 ROW"

\* C7: legacy builders over one statement with a caller ORDER BY: the order
\* expression is emitted exactly once, inside the row-numbering subquery when
\* offset > 0 (the ORDER BY builder emits nothing) and as the outer ORDER BY
\* <expr> when offset = 0 or no LIMIT clause is registered; the row limit is
\* applied by one mechanism, never both: TOP when offset = 0, the "row <="
\* predicate when offset > 0; the LIMIT builder emits no text.
C7_LegacyBuildersCooperate ==
    (pc = "done" /\ Legacy /\ HasClause(stmt, "ORDER BY")) =>
        LET expr == <<"\"", "created", "\"">>
            inSubquery == ContainsText(<<" OVER (ORDER BY ">> \o expr, part["FROM"])
        IN /\ Cardinality(Occurrences(expr, stmt.SQL)) = 1
           /\ IF Lim.err = "nil" /\ Lim.offset > 0
              THEN inSubquery /\ part["ORDER BY"] = <<>>
              ELSE ~inSubquery /\ part["ORDER BY"] = <<"ORDER BY ">> \o expr
           /\ ~(TopWritten /\ UpperPredicate)
           /\ (Lim.err = "nil" /\ Lim.limit > 0 /\ Lim.offset = 0) =>
                  TopWritten /\ ~UpperPredicate
           /\ (Lim.err = "nil" /\ Lim.limit > 0 /\ Lim.offset > 0) =>
                  /\ UpperPredicate /\ ~TopWritten
                  /\ ContainsText(<<"row <= ", "@p">>, part["WHERE"])
           /\ HasClause(stmt, "LIMIT") => part["LIMIT"] = <<>>

C7_Witness ==
    /\ pc = "done" /\ Legacy /\ HasClause(stmt, "ORDER BY")
    /\ Lim.err = "nil" /\ Lim.limit = 1 /\ Lim.offset = 1
    /\ part["ORDER BY"] = <<>>
    /\ UpperPredicate

\* C8: BindVarTo writes @p<n>, n the number of values bound on the statement at
\* the call; so the k-th placeholder written has ordinal k, ordinals strictly
\* increase and never repeat, and the values the legacy FROM rewrite injects
\* (offset, limit + offset) get ordinals after, and different from, those of
\* the caller's own values.
C8_PlaceholderOrdinals ==
    LET ords == PlaceholderOrdinals(stmt.SQL)
        injected == Built("FROM") /\ Installed("FROM", "legacy")
                    /\ Lim.err = "nil" /\ Lim.offset > 0
        bounds == <<Lim.offset>>
                  \o (IF Lim.limit > 0 THEN <<Lim.limit + Lim.offset>> ELSE <<>>)
        n == Len(stmt.Vars) - Len(bounds)
    IN /\ Len(ords) = Len(stmt.Vars)
       /\ \A k \in 1..Len(ords) : ords[k] = k
       /\ \A j, k \in 1..Len(ords) : j < k => ords[j] < ords[k]
       /\ (injected /\ Built("WHERE")) =>
              /\ n >= 0
              /\ \A i \in 1..n : stmt.Vars[ords[i]] = CallerValue(i)
              /\ \A i \in 1..Len(bounds) :
                     /\ stmt.Vars[ords[n + i]] = bounds[i]
                     /\ \A j \in 1..n : ords[n + i] # ords[j]

C8_Witness ==
    /\ Built("WHERE") /\ Legacy /\ Lim.err = "nil"
    /\ Lim.limit = 10 /\ Lim.offset = 20
    /\ stmt.Vars = <<101, 102, 20, 30>>
    /\ PlaceholderOrdinals(stmt.SQL) = <<1, 2, 3, 4>>

====
